---------------------------- MODULE Spec2Model ----------------------------
(***************************************************************************)
(* Blackjack payout trainer (src/script.js): the calculation core          *)
(* (Card/Hand, ScenarioManager, PayoutCalculator) and the round control    *)
(* flow of BlackjackPayoutTrainer / GameState / ChipManager.               *)
(*                                                                         *)
(* Money is fixed point: one unit is a tenth of a cent (0.001 dollar), so  *)
(* that the 0.01 tolerance and the rounding to two decimals are visible.   *)
(*                                                                         *)
(* Specifications:                                                         *)
(*   SpecPayout    PayoutCalculator.calculatePayout / validatePayout       *)
(*   SpecPure      calculatePayout called again on the same scenario       *)
(*   SpecHand      Hand.addCard / calculateValue                           *)
(*   SpecChips     PayoutCalculator.calculateOptimalChips                  *)
(*   SpecBetChips  calculateBetChips next to calculateOptimalChips         *)
(*   SpecGen       ScenarioManager.generateScenario on its deck            *)
(*   Spec          the running trainer: scenarios, chips, submit, timers   *)
(*   SpecChip      Chip.select / deselect / resetSelection                 *)
(*   SpecBalanced  generateBalancedScenarios, generateScenarioWithResult   *)
(*   SpecState     GameState: recordCorrect / recordIncorrect / reset      *)
(*   SpecHistory   GameState.saveProgress / saveToHistory on localStorage  *)
(*   SpecRound     one round on any curated bet with the seven tray chips  *)
(*   SpecTiming    GameState.completeScenario / updateSessionStats         *)
(***************************************************************************)
EXTENDS Integers, Sequences, FiniteSets, TLC

VARIABLES
    args,             \* arguments of the pending pure call (SpecPayout, SpecChips)
    ret,              \* what that call returned
    hand,             \* a Hand object (SpecHand)
    deck,             \* ScenarioManager.deck, an array popped from its end (SpecGen)
    scenario,         \* the scenario generateScenario returned last (SpecGen)
    generated,        \* number of generateScenario calls so far (SpecGen)
    genLog,           \* which branches the last generateScenario call took
    randomState,      \* position of the Math.random stream (SpecGen)
    currentScenario,  \* GameState.currentScenario
    gamePhase,        \* GameState.gamePhase
    gameActive,       \* GameState.gameActive
    score,            \* GameState.score: correct, total
    sessionStats,     \* GameState.sessionStats: streaks, scenariosCompleted
    currentPayout,    \* GameState.currentPayout
    selected,         \* Chip.selected for every chip of ChipManager.chips
    timers,           \* pending setTimeout callbacks, in the order they fire
    phaseTrace,       \* the gamePhase values the last handler went through
    lastEvent         \* the handler that ran last and what it found

pureVars == <<args, ret>>
handVars == <<hand>>
genVars  == <<deck, scenario, generated, genLog, randomState>>
gameVars == <<currentScenario, gamePhase, gameActive, score, sessionStats,
              currentPayout, selected, timers, phaseTrace, lastEvent>>
vars == <<args, ret, hand, deck, scenario, generated, genLog, randomState,
          currentScenario,
          gamePhase, gameActive, score, sessionStats, currentPayout, selected,
          timers, phaseTrace, lastEvent>>

\* null and undefined; record-valued so that it compares with every object
Null == [null |-> TRUE]

Dollars(n) == n * 1000
HalfDollars(n) == n * 500
Abs(x) == IF x < 0 THEN -x ELSE x
Min(a, b) == IF a < b THEN a ELSE b

RECURSIVE SeqSum(_)
SeqSum(s) == IF s = <<>> THEN 0 ELSE Head(s) + SeqSum(Tail(s))

Range(s) == {s[i] : i \in 1..Len(s)}

(***************************************************************************)
(* Card and Hand                                                           *)
(***************************************************************************)
suits == <<"hearts", "diamonds", "clubs", "spades">>
ranks == <<"A", "2", "3", "4", "5", "6", "7", "8", "9", "10", "J", "Q", "K">>

\* parseInt of a numeric rank string
parseInt(str) == CHOOSE n \in 2..10 : ToString(n) = str

getCardValue(rank) ==
    IF rank = "A" THEN 11
    ELSE IF rank \in {"K", "Q", "J"} THEN 10
    ELSE parseInt(rank)

Card(suit, rank) == [suit |-> suit, rank |-> rank, value |-> getCardValue(rank)]

isAce(card) == card.rank = "A"

NewHand == [cards |-> <<>>, value |-> 0, softAces |-> 0,
            isBlackjack |-> FALSE, isBust |-> FALSE]

\* an if in place of the while: at most one ace is counted as 1
ReduceAcesOnce(value, softAces) ==
    IF value > 21 /\ softAces > 0
    THEN [value |-> value - 10, softAces |-> softAces - 1]
    ELSE [value |-> value, softAces |-> softAces]

\* while (value > 21 && softAces > 0) { value -= 10; softAces--; }
RECURSIVE ReduceAces(_, _)
ReduceAces(value, softAces) ==
    IF value > 21 /\ softAces > 0
    THEN ReduceAces(value - 10, softAces - 1)
    ELSE [value |-> value, softAces |-> softAces]

\* the blackjack flag set for every 21, whatever the number of cards
calculateValueAnyTwentyOne(cards) ==
    LET total == SeqSum([i \in 1..Len(cards) |-> cards[i].value])
        aces  == Cardinality({i \in 1..Len(cards) : isAce(cards[i])})
        r     == ReduceAces(total, aces)
    IN  [cards       |-> cards,
         value       |-> r.value,
         softAces    |-> r.softAces,
         isBlackjack |-> (r.value = 21),
         isBust      |-> (r.value > 21)]

calculateValue(cards) ==
    LET total == SeqSum([i \in 1..Len(cards) |-> cards[i].value])
        aces  == Cardinality({i \in 1..Len(cards) : isAce(cards[i])})
        r     == ReduceAces(total, aces)
    IN  [cards       |-> cards,
         value       |-> r.value,
         softAces    |-> r.softAces,
         isBlackjack |-> (r.value = 21 /\ Len(cards) = 2),
         isBust      |-> (r.value > 21)]

\* softAces counted on from the hand's earlier count instead of from 0
addCardKeepsSoftAces(h, card) ==
    LET cards == Append(h.cards, card)
        total == SeqSum([i \in 1..Len(cards) |-> cards[i].value])
        aces  == h.softAces + Cardinality({i \in 1..Len(cards) : isAce(cards[i])})
        r     == ReduceAces(total, aces)
    IN  [cards       |-> cards,
         value       |-> r.value,
         softAces    |-> r.softAces,
         isBlackjack |-> (r.value = 21 /\ Len(cards) = 2),
         isBust      |-> (r.value > 21)]

addCard(h, card) == calculateValue(Append(h.cards, card))

(***************************************************************************)
(* BlackjackScenario                                                       *)
(***************************************************************************)
determineResult == "blackjack"

\* the even-money payout in place of 3:2
calculateCorrectPayoutEvenMoney(betAmount) == betAmount

\* betAmount * 1.5
calculateCorrectPayout(betAmount) == (betAmount * 3) \div 2

BlackjackScenario(playerHand, dealerHand, betAmount) ==
    [playerHand    |-> playerHand,
     dealerHand    |-> dealerHand,
     betAmount     |-> betAmount,
     result        |-> determineResult,
     correctPayout |-> calculateCorrectPayout(betAmount)]

(***************************************************************************)
(* PayoutCalculator                                                        *)
(***************************************************************************)
\* this.tolerance = 0.01
tolerance == 10

\* payoutRules.win = 1.0
payoutRulesWin(betAmount) == betAmount

\* the payout read from the scenario's own correctPayout field when it has one
calculatePayoutReadsStoredPayout(sc) ==
    IF sc = Null THEN 0
    ELSE IF "correctPayout" \in DOMAIN sc THEN sc.correctPayout
    ELSE IF sc.result = "blackjack" THEN (sc.betAmount * 3) \div 2
    ELSE IF sc.result = "win" THEN sc.betAmount
    ELSE 0

calculatePayoutWinPaysThreeToTwo(sc) ==
    IF sc = Null THEN 0
    ELSE IF sc.result \in {"blackjack", "win"} THEN (sc.betAmount * 3) \div 2
    ELSE 0

calculatePayout(sc) ==
    IF sc = Null THEN 0
    ELSE IF sc.result = "blackjack" THEN (sc.betAmount * 3) \div 2
    ELSE IF sc.result = "win" THEN payoutRulesWin(sc.betAmount)
    ELSE IF sc.result = "push" THEN 0
    ELSE IF sc.result = "lose" THEN 0
    ELSE 0

getValidationMessage(isCorrect) == IF isCorrect THEN "Correct" ELSE "Incorrect"

\* a missing scenario validated as one that pays nothing
validatePayoutMissingPaysNothing(sc, selectedAmount) ==
    IF sc = Null
    THEN [isCorrect |-> Abs(selectedAmount) < tolerance, message |-> "No scenario provided"]
    ELSE LET correctPayout == calculatePayout(sc)
             isCorrect == Abs(selectedAmount - correctPayout) < tolerance
         IN  [isCorrect      |-> isCorrect,
              correctAmount  |-> correctPayout,
              selectedAmount |-> selectedAmount,
              difference     |-> selectedAmount - correctPayout,
              message        |-> getValidationMessage(isCorrect)]

validatePayoutUnsignedDifference(sc, selectedAmount) ==
    IF sc = Null THEN [isCorrect |-> FALSE, message |-> "No scenario provided"]
    ELSE LET correctPayout == calculatePayout(sc)
             isCorrect == Abs(selectedAmount - correctPayout) < tolerance
         IN  [isCorrect      |-> isCorrect,
              correctAmount  |-> correctPayout,
              selectedAmount |-> selectedAmount,
              difference     |-> Abs(selectedAmount - correctPayout),
              message        |-> getValidationMessage(isCorrect)]

validatePayout(sc, selectedAmount) ==
    IF sc = Null THEN [isCorrect |-> FALSE, message |-> "No scenario provided"]
    ELSE LET correctPayout == calculatePayout(sc)
             isCorrect == Abs(selectedAmount - correctPayout) < tolerance
         IN  [isCorrect      |-> isCorrect,
              correctAmount  |-> correctPayout,
              selectedAmount |-> selectedAmount,
              difference     |-> selectedAmount - correctPayout,
              message        |-> getValidationMessage(isCorrect)]


\* [...availableChips].sort((a, b) => b.value - a.value)
RECURSIVE InsertDesc(_, _)
InsertDesc(sorted, v) ==
    IF sorted = <<>> THEN <<v>>
    ELSE IF Head(sorted) >= v THEN <<Head(sorted)>> \o InsertDesc(Tail(sorted), v)
    ELSE <<v>> \o sorted

RECURSIVE SortDesc(_)
SortDesc(list) ==
    IF list = <<>> THEN <<>>
    ELSE InsertDesc(SortDesc(SubSeq(list, 1, Len(list) - 1)), list[Len(list)])

\* Math.round(x * 100) / 100 for x >= 0.  At exactly half a cent the double
\* x * 100 lies just below or just above .5, so either neighbour can result.
RoundToCents(x, tieUp) ==
    LET low == (x \div 10) * 10
        r   == x % 10
    IN  IF r < 5 THEN low
        ELSE IF r > 5 THEN low + 10
        ELSE IF tieUp THEN low + 10 ELSE low

\* the for loop over sortedChips: st = [result, remaining]
RECURSIVE GreedyLoop(_, _, _, _)
GreedyLoop(sortedChips, result, remaining, tieUp) ==
    IF sortedChips = <<>> THEN [result |-> result, remaining |-> remaining]
    ELSE LET chip  == Head(sortedChips)
             count == remaining \div chip
         IN  IF count > 0
             THEN GreedyLoop(Tail(sortedChips),
                             Append(result, [chip |-> chip, count |-> count]),
                             RoundToCents(remaining - count * chip, tieUp),
                             tieUp)
             ELSE GreedyLoop(Tail(sortedChips), result, remaining, tieUp)

\* The returned array is [pairs |-> <<[chip, count], ...>>]; null is Null.
calculateOptimalChipsNoExactCheck(payoutAmount, availableChips, tieUp) ==
    IF payoutAmount <= 0 THEN [pairs |-> <<>>]
    ELSE [pairs |-> GreedyLoop(SortDesc(availableChips), <<>>, payoutAmount, tieUp).result]

calculateOptimalChipsUnsorted(payoutAmount, availableChips, tieUp) ==
    IF payoutAmount <= 0 THEN [pairs |-> <<>>]
    ELSE LET st == GreedyLoop(availableChips, <<>>, payoutAmount, tieUp)
         IN  IF st.remaining < tolerance THEN [pairs |-> st.result] ELSE Null

calculateOptimalChips(payoutAmount, availableChips, tieUp) ==
    IF payoutAmount <= 0 THEN [pairs |-> <<>>]
    ELSE LET st == GreedyLoop(SortDesc(availableChips), <<>>, payoutAmount, tieUp)
         IN  IF st.remaining < tolerance THEN [pairs |-> st.result] ELSE Null

\* chipDenominations of calculateBetChips, largest first
chipDenominations ==
    <<Dollars(1000), Dollars(500), Dollars(100), Dollars(25), Dollars(5),
      HalfDollars(5), Dollars(1)>>

\* the for loop of calculateBetChips with at most one $5 chip taken
RECURSIVE BetChipsLoopOneFive(_, _, _, _)
BetChipsLoopOneFive(denominations, result, remaining, tieUp) ==
    IF denominations = <<>> THEN result
    ELSE LET value == Head(denominations)
             floor == remaining \div value
             count == IF value = Dollars(5) /\ floor > 0 THEN 1 ELSE floor
         IN  IF count > 0
             THEN BetChipsLoopOneFive(Tail(denominations),
                                      Append(result, [value |-> value, count |-> count]),
                                      RoundToCents(remaining - count * value, tieUp),
                                      tieUp)
             ELSE BetChipsLoopOneFive(Tail(denominations), result, remaining, tieUp)

\* the for loop of calculateBetChips; an entry is {...chipType, count}
RECURSIVE BetChipsLoop(_, _, _, _)
BetChipsLoop(denominations, result, remaining, tieUp) ==
    IF denominations = <<>> THEN result
    ELSE LET value == Head(denominations)
             floor == remaining \div value
             count == IF value = Dollars(25) /\ floor > 0
                      THEN Min(floor, remaining \div Dollars(25))
                      ELSE IF value = Dollars(5) /\ floor > 0
                      THEN Min(floor, remaining \div Dollars(5))
                      ELSE floor
         IN  IF count > 0
             THEN BetChipsLoop(Tail(denominations),
                               Append(result, [value |-> value, count |-> count]),
                               RoundToCents(remaining - count * value, tieUp),
                               tieUp)
             ELSE BetChipsLoop(Tail(denominations), result, remaining, tieUp)

calculateBetChipsOneFive(betAmount, tieUp) ==
    BetChipsLoopOneFive(chipDenominations, <<>>, betAmount, tieUp)

calculateBetChips(betAmount, tieUp) ==
    BetChipsLoop(chipDenominations, <<>>, betAmount, tieUp)

(***************************************************************************)
(* ChipManager.chips: the seven tray denominations, in tray order          *)
(***************************************************************************)
chips == <<Dollars(1), HalfDollars(5), Dollars(5), Dollars(25), Dollars(100),
           Dollars(500), Dollars(1000)>>

\* ScenarioManager.betAmounts, in dollars
betAmounts ==
    <<5, 10, 15, 20, 25, 30, 35, 40, 50, 60, 75, 100, 125, 150, 200, 250, 300, 500,
      7, 12, 17, 22, 27, 32, 37, 42, 47, 52, 67, 72, 87, 92, 107, 117, 137, 147,
      167, 177>>

(***************************************************************************)
(* ScenarioManager                                                         *)
(*                                                                         *)
(* Math.random is one stream of numbers in [0, 1) that every call reads   *)
(* on from where the last one stopped.  rng is the stream's position: a    *)
(* 16-bit linear congruential generator, Math.random() being rng / 65536.  *)
(* Where the stream starts is the environment's choice, drawn at Init.     *)
(***************************************************************************)
NextRandom(rng) == (rng * 25173 + 13849) % 65536

\* Math.floor(Math.random() * n), read at stream position rng
RandomIndex(rng, n) == (rng * n) \div 65536

\* if (this.deck.length < 10) in dealCard
lowCardThreshold == 10

initializeDeck ==
    [k \in 1..(Len(suits) * Len(ranks)) |->
        Card(suits[((k - 1) \div Len(ranks)) + 1], ranks[((k - 1) % Len(ranks)) + 1])]

Swap(d, i, j) == [d EXCEPT ![i] = d[j], ![j] = d[i]]

\* for (let i = length - 1; i > 0; i--) { j = floor(random() * (i + 1)); swap }
\* i counts array positions from 1 here, so it runs from Len(d) down to 2.
RECURSIVE ShuffleLoop(_, _, _)
ShuffleLoop(d, i, rng) ==
    IF i < 2 THEN [deck |-> d, rng |-> rng]
    ELSE LET r == NextRandom(rng)
             j == RandomIndex(r, i) + 1
         IN  ShuffleLoop(Swap(d, i, j), i - 1, r)

shuffleDeck(d, rng) == ShuffleLoop(d, Len(d), rng)

\* a deck rebuilt only once it is empty
dealCardRefillsWhenEmpty(d, rng) ==
    LET s == IF Len(d) < 1
             THEN shuffleDeck(initializeDeck, rng)
             ELSE [deck |-> d, rng |-> rng]
    IN  [card  |-> s.deck[Len(s.deck)],
         deck  |-> SubSeq(s.deck, 1, Len(s.deck) - 1),
         rng   |-> s.rng,
         least |-> Len(s.deck),
         pops  |-> 1]

\* dealCard(): the card popped, the deck and the stream after it; least is
\* the length of the deck the card was popped from and pops counts the pop
dealCard(d, rng) ==
    LET s == IF Len(d) < lowCardThreshold
             THEN shuffleDeck(initializeDeck, rng)
             ELSE [deck |-> d, rng |-> rng]
    IN  [card  |-> s.deck[Len(s.deck)],
         deck  |-> SubSeq(s.deck, 1, Len(s.deck) - 1),
         rng   |-> s.rng,
         least |-> Len(s.deck),
         pops  |-> 1]

\* the pops of two deals taken together
AfterPops(earlier, dealt) ==
    [dealt EXCEPT !.least = Min(earlier.least, dealt.least),
                  !.pops  = earlier.pops + dealt.pops]

\* a rank list that also lets the 9 through
isTenCardFromNine(card) == card.rank \in {"9", "10", "J", "Q", "K"}

\* ['10', 'J', 'Q', 'K'].includes(card.rank)
isTenCard(card) == card.rank \in {"10", "J", "Q", "K"}

\* this.deck.indexOf(first card of the filter), counted from 1; 0 when the
\* filter is empty; matching is the set of positions the filter keeps
FirstIndex(matching) ==
    IF matching = {} THEN 0
    ELSE CHOOSE i \in matching : \A k \in matching : i <= k

\* this.deck.splice(index, 1)
Splice(d, i) == SubSeq(d, 1, i - 1) \o SubSeq(d, i + 1, Len(d))

\* the player's two cards: [hand, deck]
DealPlayerBlackjack(d) ==
    LET aceIndex == FirstIndex({i \in 1..Len(d) : isAce(d[i])})
        tenAt    == FirstIndex({i \in 1..Len(d) : isTenCard(d[i])})
    IN  IF aceIndex > 0 /\ tenAt > 0
        THEN LET ace      == d[aceIndex]
                 d1       == Splice(d, aceIndex)
                 tenIndex == FirstIndex({i \in 1..Len(d1) : isTenCard(d1[i])})
                 ten      == d1[tenIndex]
             IN  [hand |-> addCard(addCard(NewHand, ace), ten),
                  deck |-> Splice(d1, tenIndex),
                  fallback |-> FALSE]
        ELSE [hand |-> addCard(addCard(NewHand, Card("hearts", "A")),
                               Card("spades", "K")),
              deck |-> d,
              fallback |-> TRUE]

\* while (dealerHand.cards[0].value === 11 && secondCard.value === 10)
\*     secondCard = this.dealCard();
RECURSIVE RedrawSecond(_, _)
RedrawSecond(first, dealt) ==
    IF first.value = 11 /\ dealt.card.value = 10
    THEN RedrawSecond(first, AfterPops(dealt, dealCard(dealt.deck, dealt.rng)))
    ELSE dealt

\* while (dealerHand.value < 17 && !dealerHand.isBust) addCard(dealCard())
\* a dealer who stands on 16
RECURSIVE DealerPlayStandsOnSixteen(_, _)
DealerPlayStandsOnSixteen(h, last) ==
    IF h.value < 16 /\ ~h.isBust
    THEN LET dealt == AfterPops(last, dealCard(last.deck, last.rng))
         IN  DealerPlayStandsOnSixteen(addCard(h, dealt.card), dealt)
    ELSE [hand |-> h, deck |-> last.deck, rng |-> last.rng,
          least |-> last.least, pops |-> last.pops]

\* last is the latest deal made for the hand
RECURSIVE DealerPlay(_, _)
DealerPlay(h, last) ==
    IF h.value < 17 /\ ~h.isBust
    THEN LET dealt == AfterPops(last, dealCard(last.deck, last.rng))
         IN  DealerPlay(addCard(h, dealt.card), dealt)
    ELSE [hand |-> h, deck |-> last.deck, rng |-> last.rng,
          least |-> last.least, pops |-> last.pops]

\* generateScenario(): [scenario, deck, rng] for the stream at position rng
generateScenario(d, rng) ==
    LET sh      == shuffleDeck(d, rng)
        player  == DealPlayerBlackjack(sh.deck)
        first   == dealCard(player.deck, sh.rng)
        second  == RedrawSecond(first.card,
                                AfterPops(first, dealCard(first.deck, first.rng)))
        dealer2 == addCard(addCard(NewHand, first.card), second.card)
        played  == DealerPlay(dealer2, second)
        r       == NextRandom(played.rng)
        bet     == betAmounts[RandomIndex(r, Len(betAmounts)) + 1]
    IN  [scenario |-> BlackjackScenario(player.hand, played.hand, Dollars(bet)),
         deck     |-> played.deck,
         rng      |-> r,
         log      |-> [fallback |-> player.fallback,
                       first    |-> first.card,
                       second   |-> second.card,
                       redrawn  |-> second.deck # dealCard(first.deck, first.rng).deck,
                       before   |-> Len(d),
                       least    |-> played.least,
                       pops     |-> played.pops]]

(***************************************************************************)
(* Variables a specification does not use stay as constructed.             *)
(***************************************************************************)
NoScore == [correct |-> 0, total |-> 0]
NoStats == [scenariosCompleted |-> 0, bestStreak |-> 0, currentStreak |-> 0]
NoChips == [i \in 1..Len(chips) |-> 0]

PureIdle == args = Null /\ ret = Null
HandIdle == hand = NewHand
GenIdle ==
    /\ deck = initializeDeck
    /\ scenario = Null
    /\ generated = 0
    /\ genLog = Null
    /\ randomState = 0
GameIdle ==
    /\ currentScenario = Null
    /\ gamePhase = "waiting"
    /\ gameActive = FALSE
    /\ score = NoScore
    /\ sessionStats = NoStats
    /\ currentPayout = 0
    /\ selected = NoChips
    /\ timers = <<>>
    /\ phaseTrace = <<"waiting">>
    /\ lastEvent = Null

(***************************************************************************)
(* SpecPayout: calculatePayout and validatePayout applied to a scenario    *)
(***************************************************************************)
\* result values: the four of the table and one the table does not know
Results == {"blackjack", "win", "push", "lose", "surrender"}

\* bet amounts: the curated list and three amounts with cents
PayoutBets == {Dollars(betAmounts[i]) : i \in 1..Len(betAmounts)}
                  \cup {20, HalfDollars(5), 12340}

\* submitted amounts: the correct one, near misses inside and outside the
\* tolerance, and amounts off by whole chips
SubmitOffsets == {0 - Dollars(5), 0 - HalfDollars(1), -11, -9, -1, 0, 1, 9, 11,
                  HalfDollars(1), Dollars(5)}

InitPayout ==
    /\ args \in [scenario : [betAmount : PayoutBets, result : Results] \cup {Null}]
    /\ ret = Null
    /\ HandIdle /\ GenIdle /\ GameIdle

CallCalculatePayout ==
    /\ ret = Null
    /\ ret' = [fn |-> "calculatePayout", value |-> calculatePayout(args.scenario)]
    /\ UNCHANGED <<args, handVars, genVars, gameVars>>

CallValidatePayout ==
    /\ ret = Null
    /\ \E off \in SubmitOffsets :
          LET amount == calculatePayout(args.scenario) + off
          IN  ret' = [fn |-> "validatePayout", selectedAmount |-> amount,
                      value |-> validatePayout(args.scenario, amount)]
    /\ UNCHANGED <<args, handVars, genVars, gameVars>>

NextPayout == CallCalculatePayout \/ CallValidatePayout

SpecPayout == InitPayout /\ [][NextPayout]_vars

(***************************************************************************)
(* SpecPure: calculatePayout called again and again on one scenario of one *)
(* calculator.  args holds the scenario object with all its fields and the *)
(* calculator's fields; ret holds the latest return value, the number of   *)
(* calls made and the value the first call returned.                       *)
(***************************************************************************)
MaxPayoutCalls == 3

\* this.payoutRules and this.tolerance of the constructor; a rule is the
\* payout in mills for a bet of one dollar
PayoutCalculator ==
    [payoutRules |-> [blackjack |-> 1500, win |-> 1000, push |-> 0, lose |-> 0],
     tolerance   |-> tolerance]

\* scenario objects: every bet and result, with the correctPayout the
\* BlackjackScenario constructor stores or with none stored (0)
PureScenarios ==
    {[playerHand    |-> Null,
      dealerHand    |-> Null,
      betAmount     |-> bet,
      result        |-> result,
      correctPayout |-> stored] :
        bet \in PayoutBets, result \in Results,
        stored \in {0} \cup {calculateCorrectPayout(b) : b \in {Dollars(10), Dollars(25)}}}

InitPure ==
    /\ args \in [scenario : PureScenarios, calculator : {PayoutCalculator}]
    /\ ret = Null
    /\ HandIdle /\ GenIdle /\ GameIdle

CallCalculatePayoutAgain ==
    /\ (IF ret = Null THEN 0 ELSE ret.calls) < MaxPayoutCalls
    /\ \E value \in {calculatePayout(args.scenario)} :
          ret' = [fn    |-> "calculatePayout",
                  value |-> value,
                  calls |-> IF ret = Null THEN 1 ELSE ret.calls + 1,
                  first |-> IF ret = Null THEN value ELSE ret.first]
    /\ UNCHANGED <<args, handVars, genVars, gameVars>>

NextPure == CallCalculatePayoutAgain

SpecPure == InitPure /\ [][NextPure]_vars

(***************************************************************************)
(* SpecHand: a hand built card by card                                     *)
(***************************************************************************)
MaxHandCards == 4

\* calculateValue reads a card's value and rank only: one suit of thirteen
\* ranks, and a second ace that differs from the first in suit alone
HandCards ==
    {Card("hearts", ranks[r]) : r \in 1..Len(ranks)} \cup {Card("spades", "A")}

InitHand == HandIdle /\ PureIdle /\ GenIdle /\ GameIdle

AddCard ==
    /\ Len(hand.cards) < MaxHandCards
    /\ \E card \in HandCards : hand' = addCard(hand, card)
    /\ UNCHANGED <<pureVars, genVars, gameVars>>

NextHand == AddCard

SpecHand == InitHand /\ [][NextHand]_vars

(***************************************************************************)
(* SpecChips: calculateOptimalChips applied to a target amount.  The       *)
(* target is a base amount plus a pile of chips of the available           *)
(* denominations, so every target comes with one combination that makes it *)
(* (base 0) or misses it by the base.                                      *)
(***************************************************************************)
MaxPile == 5

\* base amounts: nothing, negative, below a cent, around half a cent, a cent
ChipBases == {0 - Dollars(1), -1, 0, 1, 4, 5, 6, 9, 10, 11}

\* denomination lists: the tray, the list of the unit tests, an unsorted
\* list without a $1 chip, a list with a repeated denomination, no chips
DenomLists == {chips,
               <<Dollars(1), Dollars(5), Dollars(25), Dollars(100)>>,
               <<HalfDollars(5), Dollars(25), Dollars(5)>>,
               <<Dollars(25), Dollars(1), Dollars(25)>>,
               <<1004, 504, 254, 10>>,
               <<>>}

InitChips ==
    /\ args \in [payoutAmount : ChipBases, base : ChipBases, pile : {0},
                 availableChips : DenomLists]
    /\ args.payoutAmount = args.base
    /\ ret = Null
    /\ HandIdle /\ GenIdle /\ GameIdle

\* one more chip on the pile that makes up the target
AddChipToTarget ==
    /\ ret = Null
    /\ args.pile < MaxPile
    /\ \E i \in 1..Len(args.availableChips) :
          args' = [args EXCEPT !.payoutAmount = @ + args.availableChips[i],
                               !.pile = @ + 1]
    /\ UNCHANGED <<ret, handVars, genVars, gameVars>>

CallCalculateOptimalChips ==
    /\ ret = Null
    /\ \E tieUp \in BOOLEAN :
          ret' = [fn |-> "calculateOptimalChips",
                  value |-> calculateOptimalChips(args.payoutAmount,
                                                  args.availableChips, tieUp)]
    /\ UNCHANGED <<args, handVars, genVars, gameVars>>

NextChips == AddChipToTarget \/ CallCalculateOptimalChips

SpecChips == InitChips /\ [][NextChips]_vars

(***************************************************************************)
(* SpecBetChips: a bet of the curated list rendered as chips by            *)
(* calculateBetChips and decomposed by calculateOptimalChips with the      *)
(* tray's seven chips.  ret collects what the two calls returned            *)
(* (Null: not called yet).                                                 *)
(***************************************************************************)
InitBetChips ==
    /\ args \in [betAmount : {Dollars(betAmounts[i]) : i \in 1..Len(betAmounts)}]
    /\ ret = [betChips |-> Null, optimalChips |-> Null]
    /\ HandIdle /\ GenIdle /\ GameIdle

CallCalculateBetChips ==
    /\ ret.betChips = Null
    /\ \E tieUp \in BOOLEAN :
          ret' = [ret EXCEPT !.betChips =
                      [chips |-> calculateBetChips(args.betAmount, tieUp)]]
    /\ UNCHANGED <<args, handVars, genVars, gameVars>>

CallCalculateOptimalChipsForBet ==
    /\ ret.optimalChips = Null
    /\ \E tieUp \in BOOLEAN :
          ret' = [ret EXCEPT !.optimalChips =
                      [value |-> calculateOptimalChips(args.betAmount, chips, tieUp)]]
    /\ UNCHANGED <<args, handVars, genVars, gameVars>>

NextBetChips == CallCalculateBetChips \/ CallCalculateOptimalChipsForBet

SpecBetChips == InitBetChips /\ [][NextBetChips]_vars

(***************************************************************************)
(* SpecGen: consecutive generateScenario calls on one ScenarioManager      *)
(***************************************************************************)
NumSeeds == 24
MaxGenerations == 16

\* the stream positions the seeds stand for, spread over the generator's cycle
SeedPosition(seed) == (seed * 4099) % 65536

InitGen ==
    /\ randomState \in {SeedPosition(seed) : seed \in 0..(NumSeeds - 1)}
    /\ deck = initializeDeck
    /\ scenario = Null
    /\ generated = 0
    /\ genLog = Null
    /\ PureIdle /\ HandIdle /\ GameIdle

GenerateScenario ==
    /\ generated < MaxGenerations
    /\ LET out == generateScenario(deck, randomState)
       IN  /\ deck' = out.deck
           /\ scenario' = out.scenario
           /\ genLog' = out.log
           /\ randomState' = out.rng
    /\ generated' = generated + 1
    /\ UNCHANGED <<pureVars, handVars, gameVars>>

NextGen == GenerateScenario

SpecGen == InitGen /\ [][NextGen]_vars

(***************************************************************************)
(* GameState.  g is the GameState object; g.trace lists the values         *)
(* gamePhase is given, in order, from the start of the running handler.    *)
(***************************************************************************)
NewGameState ==
    [currentScenario |-> Null,
     gamePhase       |-> "waiting",
     gameActive      |-> FALSE,
     score           |-> NoScore,
     sessionStats    |-> NoStats,
     currentPayout   |-> 0,
     trace           |-> <<"waiting">>]

setCurrentScenario(g, sc) ==
    [g EXCEPT !.currentScenario = sc,
              !.gamePhase = "playing",
              !.gameActive = TRUE,
              !.trace = Append(@, "playing")]

enterFeedbackPhase(g) ==
    [g EXCEPT !.gamePhase = "feedback",
              !.gameActive = FALSE,
              !.trace = Append(@, "feedback")]

completeScenario(g) ==
    [g EXCEPT !.sessionStats.scenariosCompleted = @ + 1,
              !.gamePhase = "waiting",
              !.trace = Append(@, "waiting")]

\* recordCorrect() without the update of bestStreak
recordCorrectBestLeft(g) ==
    completeScenario([g EXCEPT !.score.correct = @ + 1,
                               !.score.total = @ + 1,
                               !.sessionStats.currentStreak = @ + 1])

recordCorrect(g) ==
    LET streak == g.sessionStats.currentStreak + 1
        best   == IF streak > g.sessionStats.bestStreak
                  THEN streak ELSE g.sessionStats.bestStreak
    IN  completeScenario([g EXCEPT !.score.correct = @ + 1,
                                   !.score.total = @ + 1,
                                   !.sessionStats.currentStreak = streak,
                                   !.sessionStats.bestStreak = best])

\* the total counted, the streak left standing
recordIncorrectKeepsStreak(g) ==
    [g EXCEPT !.score.total = @ + 1]

recordIncorrect(g) ==
    [g EXCEPT !.score.total = @ + 1,
              !.sessionStats.currentStreak = 0]

reset(g) ==
    [g EXCEPT !.currentScenario = Null,
              !.currentPayout = 0,
              !.score = NoScore,
              !.sessionStats = NoStats,
              !.gameActive = FALSE,
              !.gamePhase = "waiting",
              !.trace = Append(@, "waiting")]

\* GameState.runTests(), called by init() on the live game state
runTests(g) ==
    LET g1 == recordCorrect(g)
        g2 == [g1 EXCEPT !.score = [correct |-> 8, total |-> 10]]
        g3 == [g2 EXCEPT !.gamePhase = "waiting", !.trace = Append(@, "waiting")]
    IN  [g3 EXCEPT !.score = [correct |-> 95, total |-> 100]]

\* if (hoursSinceLastSave < 24)
progressMaxAgeHours == 24

\* loadProgress(): saved is the parsed localStorage record
\* [score, sessionStats, ageHours], ageHours being Date.now() - timestamp
\* in hours, or Null when the key is not set
loadProgress(g, saved) ==
    IF saved # Null /\ saved.ageHours < progressMaxAgeHours
    THEN [g EXCEPT !.score = saved.score, !.sessionStats = saved.sessionStats]
    ELSE g

\* new GameState(): the field initialisers, then loadProgress()
GameStateConstructor(saved) == loadProgress(NewGameState, saved)

\* the percentage cut off, not rounded
getAccuracyTruncated(g) ==
    IF g.score.total > 0 THEN (g.score.correct * 100) \div g.score.total ELSE 0

\* score.total > 0 ? Math.round((score.correct / score.total) * 100) : 0
\* Math.round(x) is floor(x + 0.5)
getAccuracy(g) ==
    IF g.score.total > 0
    THEN (200 * g.score.correct + g.score.total) \div (2 * g.score.total)
    ELSE 0

\* the ladder with > where the code has >=
getPerformanceRatingStrict(g) ==
    LET accuracy == getAccuracy(g)
    IN  IF accuracy > 95 THEN [rating |-> "Excellent", color |-> "#00ff00"]
        ELSE IF accuracy > 85 THEN [rating |-> "Great", color |-> "#32cd32"]
        ELSE IF accuracy > 75 THEN [rating |-> "Good", color |-> "#ffd700"]
        ELSE IF accuracy > 60 THEN [rating |-> "Fair", color |-> "#ffa500"]
        ELSE [rating |-> "Needs Practice", color |-> "#ff6347"]

getPerformanceRating(g) ==
    LET accuracy == getAccuracy(g)
    IN  IF accuracy >= 95 THEN [rating |-> "Excellent", color |-> "#00ff00"]
        ELSE IF accuracy >= 85 THEN [rating |-> "Great", color |-> "#32cd32"]
        ELSE IF accuracy >= 75 THEN [rating |-> "Good", color |-> "#ffd700"]
        ELSE IF accuracy >= 60 THEN [rating |-> "Fair", color |-> "#ffa500"]
        ELSE [rating |-> "Needs Practice", color |-> "#ff6347"]

(***************************************************************************)
(* ChipManager                                                             *)
(***************************************************************************)
\* Chip.count = 50
chipCount == 50

\* canSelect() of a chip that comes once only
canSelectSingle(sel) == 1 > sel

\* Chip.canSelect(), on the chip's selected count
canSelect(sel) == chipCount > sel

\* select() without the canSelect() test
selectUnchecked(sel) == [selected |-> sel + 1, result |-> TRUE]

\* Chip.select(): [selected, result]
select(sel) ==
    IF canSelect(sel) THEN [selected |-> sel + 1, result |-> TRUE]
    ELSE [selected |-> sel, result |-> FALSE]

\* Chip.deselect(): [selected, result]
deselect(sel) ==
    IF sel > 0 THEN [selected |-> sel - 1, result |-> TRUE]
    ELSE [selected |-> sel, result |-> FALSE]

\* Chip.resetSelection()
resetSelection(sel) == 0

getTotalValue(sel) == SeqSum([i \in 1..Len(chips) |-> chips[i] * sel[i]])

getTotalChipCount(sel) == SeqSum(sel)

\* clearAllSelections(): the reset itself runs in a timer, after the chips
\* shown in the payout area have faded (50 ms each, then 300 ms)
clearAllSelections(tm, sel) ==
    Append(tm, [kind |-> "clear", delay |-> getTotalChipCount(sel) * 50 + 300])

(***************************************************************************)
(* Spec: the running trainer.  One action per event handler or timer       *)
(* callback; a handler runs to completion.                                 *)
(***************************************************************************)
MaxSelectedChips == 2
MaxSubmits == 2
MaxTimers == 2

\* the bets of the scenarios in play, and the positions in chips of the
\* denominations the dealer picks from ($2.50, $5: right and wrong totals
\* for both bets); SpecRound has all seven
BetsInPlay == {Dollars(betAmounts[1]), Dollars(betAmounts[2])}
ChipsInPlay == {2, 3}

\* the scenario as the trainer uses it: the hands play no part in a round
TrainerScenario(bet) == BlackjackScenario(Null, Null, bet)

GameObject ==
    [currentScenario |-> currentScenario,
     gamePhase       |-> gamePhase,
     gameActive      |-> gameActive,
     score           |-> score,
     sessionStats    |-> sessionStats,
     currentPayout   |-> currentPayout,
     trace           |-> <<gamePhase>>]

SetGame(g) ==
    /\ currentScenario' = g.currentScenario
    /\ gamePhase' = g.gamePhase
    /\ gameActive' = g.gameActive
    /\ score' = g.score
    /\ sessionStats' = g.sessionStats
    /\ currentPayout' = g.currentPayout
    /\ phaseTrace' = g.trace

\* generateNewScenario(): [game, timers]
generateNewScenario(g, tm, sel, bet) ==
    [game   |-> setCurrentScenario(g, TrainerScenario(bet)),
     timers |-> clearAllSelections(tm, sel)]

\* new BlackjackPayoutTrainer(): constructors, init() with the components'
\* self tests, and the first scenario; nothing saved in localStorage
Init ==
    /\ \E bet \in BetsInPlay :
          LET started == generateNewScenario(runTests(NewGameState), <<>>, NoChips, bet)
          IN  /\ currentScenario = started.game.currentScenario
              /\ gamePhase = started.game.gamePhase
              /\ gameActive = started.game.gameActive
              /\ score = started.game.score
              /\ sessionStats = started.game.sessionStats
              /\ currentPayout = started.game.currentPayout
              /\ phaseTrace = started.game.trace
              /\ timers = started.timers
    /\ selected = NoChips
    /\ lastEvent = [handler |-> "init"]
    /\ PureIdle /\ HandIdle /\ GenIdle

\* selectChip(chip)
SelectChip ==
    /\ getTotalChipCount(selected) < MaxSelectedChips
    /\ \E i \in ChipsInPlay :
          /\ chipCount > selected[i]
          /\ selected' = [selected EXCEPT ![i] = @ + 1]
    /\ currentPayout' = getTotalValue(selected')
    /\ phaseTrace' = <<gamePhase>>
    /\ lastEvent' = [handler |-> "selectChip"]
    /\ UNCHANGED <<currentScenario, gamePhase, gameActive, score, sessionStats,
                   timers, pureVars, handVars, genVars>>

\* removeChipFromPayout(chip)
RemoveChip ==
    /\ \E i \in ChipsInPlay :
          /\ selected[i] > 0
          /\ selected' = [selected EXCEPT ![i] = @ - 1]
    /\ currentPayout' = getTotalValue(selected')
    /\ phaseTrace' = <<gamePhase>>
    /\ lastEvent' = [handler |-> "removeChipFromPayout"]
    /\ UNCHANGED <<currentScenario, gamePhase, gameActive, score, sessionStats,
                   timers, pureVars, handVars, genVars>>

\* clearPayout()
ClearPayout ==
    /\ Len(timers) < MaxTimers
    /\ timers' = clearAllSelections(timers, selected)
    /\ phaseTrace' = <<gamePhase>>
    /\ lastEvent' = [handler |-> "clearPayout"]
    /\ UNCHANGED <<currentScenario, gamePhase, gameActive, score, sessionStats,
                   currentPayout, selected, pureVars, handVars, genVars>>

\* the model follows at most MaxSubmits submissions after start-up and after
\* each reset
SubmitsLeft ==
    LET atStart == runTests(NewGameState).score.total
        base    == IF score.total >= atStart THEN atStart ELSE 0
    IN  score.total < base + MaxSubmits

\* submitPayout() without its check for a current scenario
SubmitPayoutUnguarded ==
    /\ SubmitsLeft
    /\ Len(timers) < MaxTimers
    /\ LET totalPayout == getTotalValue(selected)
           validation  == validatePayout(currentScenario, totalPayout)
       IN  IF validation.isCorrect
           THEN /\ SetGame(recordCorrect(enterFeedbackPhase(GameObject)))
                /\ timers' = Append(timers, [kind |-> "generate", delay |-> 1000])
                /\ lastEvent' = [handler |-> "submitPayout", evaluated |-> TRUE,
                                 validation |-> validation,
                                 optimalChips |-> Null]
           ELSE /\ SetGame(recordIncorrect(enterFeedbackPhase(GameObject)))
                /\ timers' = timers
                /\ lastEvent' = [handler |-> "submitPayout", evaluated |-> TRUE,
                                 validation |-> validation,
                                 optimalChips |-> Null]
    /\ UNCHANGED <<selected, pureVars, handVars, genVars>>

\* submitPayout()
SubmitPayout ==
    /\ SubmitsLeft
    /\ Len(timers) < MaxTimers
    /\ IF currentScenario = Null
       THEN /\ lastEvent' = [handler |-> "submitPayout", evaluated |-> FALSE]
            /\ phaseTrace' = <<gamePhase>>
            /\ UNCHANGED <<currentScenario, gamePhase, gameActive, score,
                           sessionStats, currentPayout, timers>>
       ELSE LET totalPayout == getTotalValue(selected)
                validation  == validatePayout(currentScenario, totalPayout)
            IN  IF validation.isCorrect
                THEN /\ SetGame(recordCorrect(enterFeedbackPhase(GameObject)))
                     /\ timers' = Append(timers, [kind |-> "generate", delay |-> 1000])
                     /\ lastEvent' = [handler |-> "submitPayout", evaluated |-> TRUE,
                                      validation |-> validation,
                                      optimalChips |-> Null]
                ELSE /\ SetGame(recordIncorrect(enterFeedbackPhase(GameObject)))
                     /\ timers' = timers
                     /\ lastEvent' =
                           [handler |-> "submitPayout", evaluated |-> TRUE,
                            validation |-> validation,
                            optimalChips |->
                                calculateOptimalChips(validation.correctAmount,
                                                      chips, TRUE)]
    /\ UNCHANGED <<selected, pureVars, handVars, genVars>>

\* resetGame() with nothing scored, or resetGame() and then confirmReset():
\* performReset()
PerformReset ==
    /\ Len(timers) < MaxTimers
    /\ SetGame(reset(GameObject))
    /\ timers' = Append(clearAllSelections(timers, selected),
                        [kind |-> "generate", delay |-> 2500])
    /\ lastEvent' = [handler |-> "performReset"]
    /\ UNCHANGED <<selected, pureVars, handVars, genVars>>

\* A pending timer can fire once no timer set before it with a delay that is
\* not longer is still pending.
CanFire(i) == \A k \in 1..(i - 1) : timers[k].delay > timers[i].delay

WithoutTimer(i) == SubSeq(timers, 1, i - 1) \o SubSeq(timers, i + 1, Len(timers))

\* setTimeout(() => this.generateNewScenario(), ...)
GenerateTimerFires ==
    \E i \in 1..Len(timers) :
       /\ timers[i].kind = "generate"
       /\ CanFire(i)
       /\ \E bet \in BetsInPlay :
             LET out == generateNewScenario(GameObject, WithoutTimer(i), selected, bet)
             IN  SetGame(out.game) /\ timers' = out.timers
       /\ lastEvent' = [handler |-> "generateNewScenario"]
       /\ UNCHANGED <<selected, pureVars, handVars, genVars>>

\* the timer of clearAllSelections(): resetSelection() on every chip,
\* updateSelectedChips([]), updatePayoutTotal(0)
ClearTimerFires ==
    \E i \in 1..Len(timers) :
       /\ timers[i].kind = "clear"
       /\ CanFire(i)
       /\ timers' = WithoutTimer(i)
       /\ selected' = NoChips
       /\ currentPayout' = 0
       /\ phaseTrace' = <<gamePhase>>
       /\ lastEvent' = [handler |-> "clearAllSelections"]
       /\ UNCHANGED <<currentScenario, gamePhase, gameActive, score, sessionStats,
                      pureVars, handVars, genVars>>

Next ==
    \/ SelectChip
    \/ RemoveChip
    \/ ClearPayout
    \/ SubmitPayout
    \/ PerformReset
    \/ GenerateTimerFires
    \/ ClearTimerFires

Spec == Init /\ [][Next]_vars

(***************************************************************************)
(* SpecRound: one round on a scenario of any curated bet, with all seven   *)
(* tray chips, from the moment the scenario is shown with the chips        *)
(* cleared (after a reset, its timers fired) to the submission.            *)
(***************************************************************************)
MaxRoundChips == 5

InitRound ==
    /\ \E i \in 1..Len(betAmounts) :
          LET g == setCurrentScenario(reset(NewGameState),
                                      TrainerScenario(Dollars(betAmounts[i])))
          IN  /\ currentScenario = g.currentScenario
              /\ gamePhase = g.gamePhase
              /\ gameActive = g.gameActive
              /\ score = g.score
              /\ sessionStats = g.sessionStats
              /\ currentPayout = g.currentPayout
              /\ phaseTrace = <<g.gamePhase>>
    /\ selected = NoChips
    /\ timers = <<>>
    /\ lastEvent = [handler |-> "clearAllSelections"]
    /\ PureIdle /\ HandIdle /\ GenIdle

\* selectChip(chip), any chip of the tray
RoundSelectChip ==
    /\ lastEvent.handler # "submitPayout"
    /\ getTotalChipCount(selected) < MaxRoundChips
    /\ \E i \in 1..Len(chips) :
          /\ canSelect(selected[i])
          /\ selected' = [selected EXCEPT ![i] = select(selected[i]).selected]
    /\ currentPayout' = getTotalValue(selected')
    /\ phaseTrace' = <<gamePhase>>
    /\ lastEvent' = [handler |-> "selectChip"]
    /\ UNCHANGED <<currentScenario, gamePhase, gameActive, score, sessionStats,
                   timers, pureVars, handVars, genVars>>

\* submitPayout(), the scenario being set
RoundSubmitPayout ==
    /\ lastEvent.handler # "submitPayout"
    /\ \E validation \in {validatePayout(currentScenario, getTotalValue(selected))} :
          IF validation.isCorrect
          THEN /\ SetGame(recordCorrect(enterFeedbackPhase(GameObject)))
               /\ timers' = Append(timers, [kind |-> "generate", delay |-> 1000])
               /\ lastEvent' = [handler |-> "submitPayout", evaluated |-> TRUE,
                                validation |-> validation,
                                optimalChips |-> Null]
          ELSE /\ SetGame(recordIncorrect(enterFeedbackPhase(GameObject)))
               /\ timers' = timers
               /\ lastEvent' =
                     [handler |-> "submitPayout", evaluated |-> TRUE,
                      validation |-> validation,
                      optimalChips |->
                          calculateOptimalChips(validation.correctAmount,
                                                chips, TRUE)]
    /\ UNCHANGED <<selected, pureVars, handVars, genVars>>

NextRound == RoundSelectChip \/ RoundSubmitPayout

SpecRound == InitRound /\ [][NextRound]_vars

(***************************************************************************)
(* SpecChip: the Chip methods called on chips of a ChipManager, and        *)
(* clearAllSelections.  The payout area holds no chip elements here, the   *)
(* chips being selected through Chip.select(), so the clear timer's delay  *)
(* is the bare 300 ms.                                                     *)
(***************************************************************************)
\* the chips the methods are called on: the $1 and the $5 chip
ChipsTested == {1, 3}

InitChip ==
    /\ selected = NoChips
    /\ timers = <<>>
    /\ args = Null /\ ret = Null
    /\ currentScenario = Null /\ gamePhase = "waiting" /\ gameActive = FALSE
    /\ score = NoScore /\ sessionStats = NoStats /\ currentPayout = 0
    /\ phaseTrace = <<"waiting">> /\ lastEvent = Null
    /\ HandIdle /\ GenIdle

\* the variables the Chip methods leave alone
chipFrame == <<timers, currentScenario, gamePhase, gameActive, score, sessionStats,
               currentPayout, phaseTrace, lastEvent, handVars, genVars>>

ChipSelect ==
    /\ \E i \in ChipsTested :
          LET out == select(selected[i])
          IN  /\ selected' = [selected EXCEPT ![i] = out.selected]
              /\ args' = [chip |-> i, before |-> selected[i]]
              /\ ret' = [fn |-> "select", value |-> out.result]
    /\ UNCHANGED chipFrame

ChipDeselect ==
    /\ \E i \in ChipsTested :
          LET out == deselect(selected[i])
          IN  /\ selected' = [selected EXCEPT ![i] = out.selected]
              /\ args' = [chip |-> i, before |-> selected[i]]
              /\ ret' = [fn |-> "deselect", value |-> out.result]
    /\ UNCHANGED chipFrame

ChipResetSelection ==
    /\ \E i \in ChipsTested :
          /\ selected' = [selected EXCEPT ![i] = resetSelection(selected[i])]
          /\ args' = [chip |-> i, before |-> selected[i]]
          /\ ret' = [fn |-> "resetSelection", value |-> Null]
    /\ UNCHANGED chipFrame

ChipClearAllSelections ==
    /\ Len(timers) < MaxTimers
    /\ timers' = clearAllSelections(timers, NoChips)
    /\ args' = Null
    /\ ret' = [fn |-> "clearAllSelections", value |-> Null]
    /\ UNCHANGED <<selected, currentScenario, gamePhase, gameActive, score,
                   sessionStats, currentPayout, phaseTrace, lastEvent,
                   handVars, genVars>>

ChipClearTimerFires ==
    \E i \in 1..Len(timers) :
       /\ timers[i].kind = "clear"
       /\ CanFire(i)
       /\ timers' = WithoutTimer(i)
       /\ selected' = [k \in 1..Len(chips) |-> resetSelection(selected[k])]
       /\ currentPayout' = 0
       /\ args' = Null
       /\ ret' = [fn |-> "clearAllSelections timer", value |-> Null]
       /\ UNCHANGED <<currentScenario, gamePhase, gameActive, score, sessionStats,
                      phaseTrace, lastEvent, handVars, genVars>>

NextChip ==
    \/ ChipSelect
    \/ ChipDeselect
    \/ ChipResetSelection
    \/ ChipClearAllSelections
    \/ ChipClearTimerFires

SpecChip == InitChip /\ [][NextChip]_vars

(***************************************************************************)
(* SpecBalanced: one call of generateBalancedScenarios(count), a step per  *)
(* loop iteration.  args is the call's position: count, the loop it is in  *)
(* (pc), the result type asked for (t), the scenarios pushed for that type *)
(* (i) and the attempts made for the scenario being sought.  ret is the    *)
(* scenarios array; an entry keeps the scenario's result and bet and the   *)
(* result type it was asked with (Null for a fill-up scenario).            *)
(***************************************************************************)
NumBalancedSeeds == 2

\* const maxAttempts = 50 in generateScenarioWithResult
maxAttempts == 50

\* const resultTypes in generateBalancedScenarios
resultTypes == <<"blackjack", "win", "lose", "push">>

\* the counts the call is made with: the test's 20, and 6 (one per type, two
\* to fill up)
BalancedCounts == {6, 20}

\* Math.floor(count / resultTypes.length)
scenariosPerType(count) == count \div Len(resultTypes)

\* where the two nested for loops stand after a push
AfterPush(a) ==
    IF a.i + 1 < scenariosPerType(a.count)
    THEN [a EXCEPT !.i = a.i + 1, !.attempts = 0]
    ELSE IF a.t < Len(resultTypes)
    THEN [a EXCEPT !.t = a.t + 1, !.i = 0, !.attempts = 0]
    ELSE [a EXCEPT !.pc = "fill", !.attempts = 0]

InitBalanced ==
    /\ \E count \in BalancedCounts :
          args = [count |-> count,
                  pc |-> IF scenariosPerType(count) > 0 THEN "types" ELSE "fill",
                  t |-> 1, i |-> 0, attempts |-> 0]
    /\ ret = [scenarios |-> <<>>]
    /\ randomState \in {SeedPosition(seed) : seed \in 0..(NumBalancedSeeds - 1)}
    /\ deck = initializeDeck
    /\ scenario = Null
    /\ generated = 0
    /\ genLog = Null
    /\ HandIdle /\ GameIdle

\* the do-while without its limit on the attempts
AttemptScenarioUntilFound ==
    /\ args.pc = "types"
    /\ \E out \in {generateScenario(deck, randomState)} :
       LET attempts == args.attempts + 1
       IN  /\ deck' = out.deck
           /\ scenario' = out.scenario
           /\ genLog' = out.log
           /\ randomState' = out.rng
           /\ IF out.scenario.result # resultTypes[args.t]
              THEN /\ args' = [args EXCEPT !.attempts = attempts]
                   /\ ret' = ret
              ELSE /\ args' = AfterPush(args)
                   /\ ret' = [scenarios |->
                                 Append(ret.scenarios,
                                        [result    |-> out.scenario.result,
                                         betAmount |-> out.scenario.betAmount,
                                         requested |-> [type |-> resultTypes[args.t]]])]
    /\ generated' = generated + 1
    /\ UNCHANGED <<handVars, gameVars>>

\* one pass of the do-while in generateScenarioWithResult(resultTypes[t]);
\* the scenario is returned and pushed when its result is the one asked for
\* or the attempts are used up
AttemptScenarioWithResult ==
    /\ args.pc = "types"
    /\ \E out \in {generateScenario(deck, randomState)} :
       LET attempts == args.attempts + 1
       IN  /\ deck' = out.deck
           /\ scenario' = out.scenario
           /\ genLog' = out.log
           /\ randomState' = out.rng
           /\ IF out.scenario.result # resultTypes[args.t] /\ attempts < maxAttempts
              THEN /\ args' = [args EXCEPT !.attempts = attempts]
                   /\ ret' = ret
              ELSE /\ args' = AfterPush(args)
                   /\ ret' = [scenarios |->
                                 Append(ret.scenarios,
                                        [result    |-> out.scenario.result,
                                         betAmount |-> out.scenario.betAmount,
                                         requested |-> [type |-> resultTypes[args.t]]])]
    /\ generated' = generated + 1
    /\ UNCHANGED <<handVars, gameVars>>

\* while (scenarios.length < count) scenarios.push(this.generateScenario())
FillRemainingSlot ==
    /\ args.pc = "fill"
    /\ Len(ret.scenarios) < args.count
    /\ \E out \in {generateScenario(deck, randomState)} :
           /\ deck' = out.deck
           /\ scenario' = out.scenario
           /\ genLog' = out.log
           /\ randomState' = out.rng
           /\ ret' = [scenarios |->
                         Append(ret.scenarios,
                                [result    |-> out.scenario.result,
                                 betAmount |-> out.scenario.betAmount,
                                 requested |-> Null])]
    /\ generated' = generated + 1
    /\ UNCHANGED <<args, handVars, gameVars>>

\* the closing shuffle and the return
ShuffleAndReturn ==
    /\ args.pc = "fill"
    /\ Len(ret.scenarios) >= args.count
    /\ \E sh \in {ShuffleLoop(ret.scenarios, Len(ret.scenarios), randomState)} :
           /\ ret' = [scenarios |-> sh.deck]
           /\ randomState' = sh.rng
    /\ args' = [args EXCEPT !.pc = "done"]
    /\ UNCHANGED <<deck, scenario, generated, genLog, handVars, gameVars>>

NextBalanced ==
    \/ AttemptScenarioWithResult
    \/ FillRemainingSlot
    \/ ShuffleAndReturn

SpecBalanced == InitBalanced /\ [][NextBalanced]_vars

(***************************************************************************)
(* SpecState: one GameState object from its constructor on.  args holds    *)
(* what localStorage held when it was constructed; lastEvent names the     *)
(* last method and counts the calls.                                       *)
(***************************************************************************)
MaxCalls == 9

\* records that saveProgress() left behind: a short session, a long one with
\* 94.5 percent right, one at 85 percent; each read within the day and a
\* day late
SavedSessions ==
    {[score |-> [correct |-> 3, total |-> 5],
      sessionStats |-> [scenariosCompleted |-> 3, bestStreak |-> 2, currentStreak |-> 1]],
     [score |-> [correct |-> 189, total |-> 200],
      sessionStats |-> [scenariosCompleted |-> 189, bestStreak |-> 40, currentStreak |-> 12]],
     [score |-> [correct |-> 17, total |-> 20],
      sessionStats |-> [scenariosCompleted |-> 17, bestStreak |-> 9, currentStreak |-> 0]]}

SavedProgress ==
    {Null} \cup
    {[score |-> s.score, sessionStats |-> s.sessionStats, ageHours |-> h] :
        s \in SavedSessions, h \in {0, progressMaxAgeHours}}

InitState ==
    /\ args \in [savedProgress : SavedProgress]
    /\ ret = Null
    /\ LET g == GameStateConstructor(args.savedProgress)
       IN  /\ currentScenario = g.currentScenario
           /\ gamePhase = g.gamePhase
           /\ gameActive = g.gameActive
           /\ score = g.score
           /\ sessionStats = g.sessionStats
           /\ currentPayout = g.currentPayout
           /\ phaseTrace = g.trace
    /\ selected = NoChips
    /\ timers = <<>>
    /\ lastEvent = [handler |-> "constructor", calls |-> 0]
    /\ HandIdle /\ GenIdle

StateCall(method) ==
    /\ lastEvent.calls < MaxCalls
    /\ lastEvent' = [handler |-> method, calls |-> lastEvent.calls + 1]
    /\ UNCHANGED <<selected, timers, pureVars, handVars, genVars>>

RecordCorrect == SetGame(recordCorrect(GameObject)) /\ StateCall("recordCorrect")

RecordIncorrect == SetGame(recordIncorrect(GameObject)) /\ StateCall("recordIncorrect")

ResetState == SetGame(reset(GameObject)) /\ StateCall("reset")

NextState ==
    \/ RecordCorrect
    \/ RecordIncorrect
    \/ ResetState

SpecState == InitState /\ [][NextState]_vars

(***************************************************************************)
(* SpecHistory: the session history kept in localStorage.  args is the     *)
(* environment of the GameState object: localStorage (the progress item    *)
(* and the history item) and today, the calendar date new Date() gives,    *)
(* counted in days.  ret is the sessionData the latest saveToHistory wrote *)
(* (Null when it wrote none).                                              *)
(***************************************************************************)
MaxHistoryCalls == 4
MaxDaysAhead == 2

\* history.slice(-30)
historyLimit == 30

\* sessionData of saveToHistory
SessionData(g, today) ==
    [date         |-> today,
     score        |-> g.score,
     sessionStats |-> g.sessionStats,
     accuracy     |-> getAccuracy(g),
     performance  |-> getPerformanceRating(g)]

\* history.slice(-30)
LastEntries(history) ==
    IF Len(history) > historyLimit
    THEN SubSeq(history, Len(history) - historyLimit + 1, Len(history))
    ELSE history

\* today's entry left in place and a second one pushed after it
saveToHistoryKeepsToday(g, history, today) ==
    IF g.score.total > 0
    THEN LastEntries(Append(history, SessionData(g, today)))
    ELSE history

\* saveToHistory(): the history item after the call
saveToHistory(g, history, today) ==
    IF g.score.total > 0
    THEN LET kept == SelectSeq(history, LAMBDA entry : entry.date # today)
         IN  LastEntries(Append(kept, SessionData(g, today)))
    ELSE history

\* saveProgress(): localStorage after the call
saveProgress(g, store, today) ==
    [progress |-> [score        |-> g.score,
                   sessionStats |-> g.sessionStats,
                   gamePhase    |-> g.gamePhase,
                   savedOn      |-> today],
     history  |-> saveToHistory(g, store.history, today)]

\* the history an earlier use of the trainer left: one correct answer on
\* each of the days 1..n
EarlierHistory(n) == [day \in 1..n |-> SessionData(recordCorrect(NewGameState), day)]

\* nothing stored yet, or a progress item removed by clearSavedProgress and a
\* history of 29 or 30 days
InitHistory ==
    /\ \E n \in {0, historyLimit - 1, historyLimit} :
          args = [localStorage |-> [progress |-> Null, history |-> EarlierHistory(n)],
                  today        |-> n + 1,
                  firstDay     |-> n + 1]
    /\ ret = Null
    /\ LET g == GameStateConstructor(Null)
       IN  /\ currentScenario = g.currentScenario
           /\ gamePhase = g.gamePhase
           /\ gameActive = g.gameActive
           /\ score = g.score
           /\ sessionStats = g.sessionStats
           /\ currentPayout = g.currentPayout
           /\ phaseTrace = g.trace
    /\ selected = NoChips
    /\ timers = <<>>
    /\ lastEvent = [handler |-> "constructor", calls |-> 0]
    /\ HandIdle /\ GenIdle

historyFrame == <<selected, timers, handVars, genVars>>

\* recordCorrect(): completeScenario saves, then recordCorrect saves again
HistoryRecordCorrect ==
    /\ lastEvent.calls < MaxHistoryCalls
    /\ \E g \in {recordCorrect(GameObject)} :
          /\ SetGame(g)
          /\ args' = [args EXCEPT !.localStorage =
                         saveProgress(g, saveProgress(g, @, args.today), args.today)]
          /\ ret' = SessionData(g, args.today)
    /\ lastEvent' = [handler |-> "recordCorrect", calls |-> lastEvent.calls + 1]
    /\ UNCHANGED historyFrame

HistoryRecordIncorrect ==
    /\ lastEvent.calls < MaxHistoryCalls
    /\ \E g \in {recordIncorrect(GameObject)} :
          /\ SetGame(g)
          /\ args' = [args EXCEPT !.localStorage = saveProgress(g, @, args.today)]
          /\ ret' = SessionData(g, args.today)
    /\ lastEvent' = [handler |-> "recordIncorrect", calls |-> lastEvent.calls + 1]
    /\ UNCHANGED historyFrame

\* reset(): the score is zero when it saves, so no sessionData is written
HistoryReset ==
    /\ lastEvent.calls < MaxHistoryCalls
    /\ \E g \in {reset(GameObject)} :
          /\ SetGame(g)
          /\ args' = [args EXCEPT !.localStorage = saveProgress(g, @, args.today)]
    /\ ret' = Null
    /\ lastEvent' = [handler |-> "reset", calls |-> lastEvent.calls + 1]
    /\ UNCHANGED historyFrame

\* midnight passes
NextDay ==
    /\ args.today < args.firstDay + MaxDaysAhead
    /\ args' = [args EXCEPT !.today = @ + 1]
    /\ lastEvent' = [handler |-> "midnight", calls |-> lastEvent.calls]
    /\ UNCHANGED <<ret, currentScenario, gamePhase, gameActive, score, sessionStats,
                   currentPayout, phaseTrace, historyFrame>>

NextHistory ==
    \/ HistoryRecordCorrect
    \/ HistoryRecordIncorrect
    \/ HistoryReset
    \/ NextDay

SpecHistory == InitHistory /\ [][NextHistory]_vars

(***************************************************************************)
(* SpecTiming: the time spent per scenario.  args is the clock: now is     *)
(* what Date.now() returns, in ms from a moment before the page loaded.    *)
(* ret holds the fields of the GameState the other specifications leave    *)
(* out: scenarioStartTime (0: never assigned), sessionStats.averageTime    *)
(* and, as updated, the timeSpent and the scenariosCompleted of the latest *)
(* updateSessionStats call (Null: not called yet).                         *)
(*                                                                         *)
(* A JS number is [kind |-> "finite", num, den] (the fraction num / den),  *)
(* [kind |-> "Infinity"], [kind |-> "-Infinity"] or [kind |-> "NaN"].      *)
(* Fractions are exact: the rounding of doubles changes neither the sign   *)
(* nor the kind of the value.                                              *)
(***************************************************************************)
MaxClock == 3
MaxTimedCalls == 5

RECURSIVE GCD(_, _)
GCD(a, b) == IF b = 0 THEN a ELSE GCD(b, a % b)

Fraction(num, den) ==
    LET g == GCD(Abs(num), den)
    IN  [kind |-> "finite", num |-> num \div g, den |-> den \div g]

JsNumber(n) == Fraction(n, 1)
JsInfinity == [kind |-> "Infinity"]
JsMinusInfinity == [kind |-> "-Infinity"]
JsNaN == [kind |-> "NaN"]

\* x * k, k an integer
JsTimes(x, k) ==
    IF x.kind = "NaN" THEN JsNaN
    ELSE IF x.kind = "finite" THEN Fraction(x.num * k, x.den)
    ELSE IF k = 0 THEN JsNaN
    ELSE IF (x.kind = "Infinity") = (k > 0) THEN JsInfinity
    ELSE JsMinusInfinity

\* x + t, t an integer
JsPlus(x, t) ==
    IF x.kind = "finite" THEN Fraction(x.num + t * x.den, x.den) ELSE x

\* x / n, n an integer that is not negative
JsOver(x, n) ==
    IF x.kind = "NaN" THEN JsNaN
    ELSE IF x.kind # "finite" THEN x
    ELSE IF n > 0 THEN Fraction(x.num, x.den * n)
    ELSE IF x.num > 0 THEN JsInfinity
    ELSE IF x.num < 0 THEN JsMinusInfinity
    ELSE JsNaN

\* updateSessionStats(timeSpent): t is [scenarioStartTime, averageTime,
\* updated], scenariosCompleted the counter as the call finds it
updateSessionStats(t, scenariosCompleted, timeSpent) ==
    LET totalTime == JsPlus(JsTimes(t.averageTime, scenariosCompleted - 1), timeSpent)
    IN  [t EXCEPT !.averageTime = JsOver(totalTime, scenariosCompleted),
                  !.updated = [timeSpent |-> timeSpent,
                               scenariosCompleted |-> scenariosCompleted]]

\* completeScenario(), the lines before scenariosCompleted++
completeScenarioTiming(t, scenariosCompleted, now) ==
    IF t.scenarioStartTime # 0
    THEN updateSessionStats(t, scenariosCompleted, now - t.scenarioStartTime)
    ELSE t

\* new GameState() with nothing saved, at any moment of the clock; or the
\* GameState of the trainer when init() has run its self tests
InitTiming ==
    /\ args \in [now : 1..MaxClock]
    /\ ret = [scenarioStartTime |-> 0, averageTime |-> JsNumber(0), updated |-> Null]
    /\ \E g \in {NewGameState, runTests(NewGameState)} :
          /\ currentScenario = g.currentScenario
          /\ gamePhase = g.gamePhase
          /\ gameActive = g.gameActive
          /\ score = g.score
          /\ sessionStats = g.sessionStats
          /\ currentPayout = g.currentPayout
          /\ phaseTrace = g.trace
    /\ selected = NoChips
    /\ timers = <<>>
    /\ lastEvent = [handler |-> "constructor", calls |-> 0]
    /\ HandIdle /\ GenIdle

TimedCall(method) ==
    /\ lastEvent.calls < MaxTimedCalls
    /\ lastEvent' = [handler |-> method, calls |-> lastEvent.calls + 1]
    /\ UNCHANGED <<args, selected, timers, handVars, genVars>>

\* Date.now() moves on
ClockTicks ==
    /\ args.now < MaxClock
    /\ args' = [args EXCEPT !.now = @ + 1]
    /\ UNCHANGED <<ret, handVars, genVars, gameVars>>

\* generateNewScenario(): setCurrentScenario(scenario)
TimedSetCurrentScenario ==
    /\ SetGame(setCurrentScenario(GameObject, TrainerScenario(Dollars(betAmounts[1]))))
    /\ ret' = [ret EXCEPT !.scenarioStartTime = args.now]
    /\ TimedCall("setCurrentScenario")

\* submitPayout() with the correct total: enterFeedbackPhase(), recordCorrect()
TimedRecordCorrect ==
    /\ currentScenario # Null
    /\ SetGame(recordCorrect(enterFeedbackPhase(GameObject)))
    /\ ret' = completeScenarioTiming(ret, sessionStats.scenariosCompleted, args.now)
    /\ TimedCall("recordCorrect")

\* reset(): scenarioStartTime is left as it is
TimedReset ==
    /\ SetGame(reset(GameObject))
    /\ ret' = [ret EXCEPT !.averageTime = JsNumber(0)]
    /\ TimedCall("reset")

NextTiming ==
    \/ ClockTicks
    \/ TimedSetCurrentScenario
    \/ TimedRecordCorrect
    \/ TimedReset

SpecTiming == InitTiming /\ [][NextTiming]_vars

(***************************************************************************)
(* Properties                                                              *)
(***************************************************************************)
Called(fn) == ret # Null /\ ret.fn = fn

\* C1: calculatePayout gives betAmount x 1.5 for 'blackjack', betAmount for
\* 'win', and 0 for 'push', 'lose' and every other result, for every bet.
PayoutFollowsTable ==
    (Called("calculatePayout") /\ args.scenario # Null) =>
        LET bet    == args.scenario.betAmount
            result == args.scenario.result
        IN  /\ result = "blackjack" => 2 * ret.value = 3 * bet
            /\ result = "win" => ret.value = bet
            /\ result \notin {"blackjack", "win"} => ret.value = 0

\* calculatePayout({betAmount: 25, result: 'win'}) returned 25
PayoutOfWinReturned ==
    /\ Called("calculatePayout")
    /\ args.scenario = [betAmount |-> Dollars(25), result |-> "win"]
    /\ ret.value = Dollars(25)

\* C2: for a non-null scenario validatePayout returns isCorrect exactly when
\* |submitted - correct| < 0.01, with correctAmount the calculated payout,
\* selectedAmount the submitted amount and difference = submitted - correct.
ValidationMatchesPayout ==
    (Called("validatePayout") /\ args.scenario # Null) =>
        LET correct   == calculatePayout(args.scenario)
            submitted == ret.selectedAmount
        IN  /\ ret.value.isCorrect <=> (submitted - correct < 10 /\ correct - submitted < 10)
            /\ ret.value.correctAmount = correct
            /\ ret.value.selectedAmount = submitted
            /\ ret.value.difference = submitted - correct
            /\ submitted < correct => ret.value.difference < 0

\* validatePayout({betAmount: 10, result: 'blackjack'}, 10): wrong, 5 under
UnderpaidValidationReturned ==
    /\ Called("validatePayout")
    /\ args.scenario = [betAmount |-> Dollars(10), result |-> "blackjack"]
    /\ ret.selectedAmount = Dollars(10)
    /\ ~ret.value.isCorrect
    /\ ret.value.difference = 0 - Dollars(5)

\* the reference value of a hand, from the ranks that occur in it
RankCount(cards, rank) == Cardinality({i \in 1..Len(cards) : cards[i].rank = rank})
HardValueOfRank(r) == IF r = 1 THEN 1 ELSE IF r > 10 THEN 10 ELSE r
RankIndex(rank) == CHOOSE r \in 1..Len(ranks) : ranks[r] = rank
HardTotal(cards) ==
    SeqSum([i \in 1..Len(cards) |-> HardValueOfRank(RankIndex(cards[i].rank))])
AceTotals(cards) ==
    LET hard == HardTotal(cards)
    IN  {hard + 10 * k : k \in 0..RankCount(cards, "A")}
ReferenceValue(cards) ==
    LET totals  == AceTotals(cards)
        fitting == {t \in totals : t <= 21}
    IN  IF fitting = {} THEN CHOOSE t \in totals : \A u \in totals : t <= u
        ELSE CHOOSE t \in fitting : \A u \in fitting : u <= t

\* C3: after addCard the hand's value is the largest total not above 21 over
\* the ways of counting each ace as 1 or 11, or the all-aces-as-1 total when
\* none fits; it lies between the all-1 and all-11 totals and depends only
\* on which cards are in the hand.
HandValueIsBestTotal ==
    hand.cards # <<>> =>
        LET hard == HardTotal(hand.cards)
        IN  /\ hand.value = ReferenceValue(hand.cards)
            /\ hand.value >= hard
            /\ hand.value <= hard + 10 * RankCount(hand.cards, "A")

\* A, A, K: both aces had to be counted as 1
TwoAcesReduced ==
    /\ Len(hand.cards) = 3
    /\ RankCount(hand.cards, "A") = 2
    /\ RankCount(hand.cards, "K") = 1
    /\ hand.value = 12

PairsTotal(pairs) == SeqSum([i \in 1..Len(pairs) |-> pairs[i].count * pairs[i].chip])
PairsCount(pairs) == SeqSum([i \in 1..Len(pairs) |-> pairs[i].count])

\* the combination is sound for the target
SoundFor(pairs, target) ==
    /\ target <= 0 => pairs = <<>>
    /\ target > 0 => /\ PairsTotal(pairs) - target < 10
                     /\ target - PairsTotal(pairs) < 10
    /\ \A i \in 1..Len(pairs) : pairs[i].count > 0
    /\ \A i, k \in 1..Len(pairs) : i # k => pairs[i].chip # pairs[k].chip

\* the denominations are whole cents and no value occurs twice
DistinctCentChips(list) ==
    /\ \A i \in 1..Len(list) : list[i] % 10 = 0
    /\ \A i, k \in 1..Len(list) : i # k => list[i] # list[k]

ReachableTargetIsDecomposed ==
    (/\ Called("calculateOptimalChips")
     /\ args.availableChips = chips
     /\ args.base = 0
     /\ args.pile > 0) =>
        /\ ret.value # Null
        /\ PairsTotal(ret.value.pairs) - args.payoutAmount < 10
        /\ args.payoutAmount - PairsTotal(ret.value.pairs) < 10

\* C6: whenever calculateOptimalChips with the tray chips returns a
\* combination, no combination of tray chips that makes the target exactly
\* has fewer chips.
GreedyIsMinimal ==
    (/\ Called("calculateOptimalChips")
     /\ args.availableChips = chips
     /\ args.base = 0
     /\ ret.value # Null) =>
        PairsCount(ret.value.pairs) <= args.pile

\* 7.50 piled up as three 2.50 chips, returned as one 5 and one 2.50
SmallerThanPileReturned ==
    /\ Called("calculateOptimalChips")
    /\ args.availableChips = chips
    /\ args.base = 0
    /\ args.pile = 3
    /\ args.payoutAmount = HalfDollars(15)
    /\ ret.value # Null
    /\ PairsCount(ret.value.pairs) = 2

DealerNeverBlackjack ==
    scenario # Null =>
        LET d == scenario.dealerHand
        IN  /\ ~(d.cards[1].value = 11 /\ d.cards[2].value = 10)
            /\ ~(d.cards[1].value = 10 /\ d.cards[2].value = 11)
            /\ ~d.isBlackjack

CuratedBets == {Dollars(betAmounts[i]) : i \in 1..Len(betAmounts)}

\* C9: every generated scenario has a positive betAmount of the curated
\* list and a non-negative correctPayout equal to betAmount x 1.5 and to
\* calculatePayout(scenario).
ScenarioPayoutConsistent ==
    scenario # Null =>
        /\ scenario.betAmount > 0
        /\ scenario.betAmount \in CuratedBets
        /\ scenario.correctPayout >= 0
        /\ 2 * scenario.correctPayout = 3 * scenario.betAmount
        /\ scenario.correctPayout = calculatePayout(scenario)

\* a generated scenario whose payout has a half dollar in it
OddBetGenerated ==
    /\ scenario # Null
    /\ (scenario.betAmount \div Dollars(1)) % 2 = 1
    /\ scenario.correctPayout % Dollars(1) = HalfDollars(1)

PhaseStepAllowed(from, to) ==
    \/ from = "waiting" /\ to = "playing"
    \/ from = "playing" /\ to = "feedback"
    \/ from = "feedback" /\ to = "waiting"
    \/ from = to /\ from # "playing"
    \/ lastEvent.handler = "performReset" /\ to = "waiting"

ChipTotalIsCorrect ==
    LET total == getTotalValue(selected)
        due   == 3 * currentScenario.betAmount
    IN  2 * total - due < 20 /\ due - 2 * total < 20

EvaluatedSubmission ==
    lastEvent'.handler = "submitPayout" /\ lastEvent'.evaluated

\* C11: every submission evaluated against a current scenario adds exactly 1
\* to score.total; a correct one adds 1 to score.correct and to currentStreak
\* and makes bestStreak the larger of bestStreak and the new currentStreak;
\* an incorrect one leaves score.correct and bestStreak alone and sets
\* currentStreak to 0.
SubmissionScoredOnce ==
    [][EvaluatedSubmission =>
          /\ score'.total = score.total + 1
          /\ ChipTotalIsCorrect =>
                /\ score'.correct = score.correct + 1
                /\ sessionStats'.currentStreak = sessionStats.currentStreak + 1
                /\ sessionStats'.bestStreak =
                      IF sessionStats'.currentStreak > sessionStats.bestStreak
                      THEN sessionStats'.currentStreak
                      ELSE sessionStats.bestStreak
          /\ ~ChipTotalIsCorrect =>
                /\ score'.correct = score.correct
                /\ sessionStats'.bestStreak = sessionStats.bestStreak
                /\ sessionStats'.currentStreak = 0]_vars

\* a wrong chip total was submitted and ended a streak that had been the best
StreakEndedBySubmission ==
    /\ lastEvent.handler = "submitPayout"
    /\ lastEvent.evaluated
    /\ ~lastEvent.validation.isCorrect
    /\ sessionStats.currentStreak = 0
    /\ sessionStats.bestStreak > 0
    /\ score.total > score.correct + 5

\* C12: after every evaluated submission, correct or not, the game leaves
\* the feedback phase and a next scenario becomes current with no further
\* user action.  Only a timer callback acts without the user, so when the
\* submitPayout handler returns either the phase is no longer feedback and
\* a generateNewScenario callback is pending, or nothing will follow.
SubmissionSchedulesNextScenario ==
    (lastEvent.handler = "submitPayout" /\ lastEvent.evaluated) =>
        /\ gamePhase # "feedback"
        /\ \E i \in 1..Len(timers) : timers[i].kind = "generate"

\* the handlers that start a scenario or clear the payout
ResettingHandlers == {"init", "generateNewScenario", "clearPayout", "performReset"}

\* C13: chip selections reset at the start of each scenario and on explicit
\* clear: when generateNewScenario or clearPayout returns, every
\* denomination's selected count is 0, and chips are taken off the table
\* only then (or one by one by the user), so none selected later is lost.
SelectionResetWithScenario ==
    [][/\ lastEvent'.handler \in ResettingHandlers => selected' = NoChips
       /\ (selected # NoChips /\ selected' = NoChips) =>
             lastEvent'.handler \in ResettingHandlers \cup {"removeChipFromPayout"}]_vars

\* C14: whatever sequence of select, deselect, resetSelection and
\* clearAllSelections ran, 0 <= selected <= count (50) for every
\* denomination; select returns false and changes nothing exactly when
\* selected = count, deselect returns false and changes nothing exactly
\* when selected = 0.
SelectedWithinCount ==
    /\ \A i \in 1..Len(chips) : selected[i] >= 0 /\ selected[i] <= 50
    /\ Called("select") =>
          /\ ret.value = FALSE <=> args.before = 50
          /\ selected[args.chip] = IF ret.value THEN args.before + 1 ELSE args.before
    /\ Called("deselect") =>
          /\ ret.value = FALSE <=> args.before = 0
          /\ selected[args.chip] = IF ret.value THEN args.before - 1 ELSE args.before

\* select() refused on the $1 chip with all fifty taken, the $5 chip in use
SelectRefusedAtLimit ==
    /\ Called("select")
    /\ args.chip = 1
    /\ ret.value = FALSE
    /\ selected[1] = 50
    /\ selected[3] > 0

HandRanks == [i \in 1..Len(hand.cards) |-> hand.cards[i].rank]

\* C15: the hand built by adding A, 6, 8 with addCard has value 15, is not
\* bust and has softAces = 1.
AceSixEightIsSoftFifteen ==
    HandRanks = <<"A", "6", "8">> =>
        /\ hand.value = 15
        /\ ~hand.isBust
        /\ hand.softAces = 1

\* C16: after every addCard the flags agree with the value computed afresh
\* from the cards: isBlackjack exactly when the value is 21 and the hand has
\* exactly 2 cards, isBust exactly when the value is above 21, and never
\* both.
FlagsAgreeWithValue ==
    hand.cards # <<>> =>
        LET value == ReferenceValue(hand.cards)
        IN  /\ hand.isBlackjack <=> (value = 21 /\ Len(hand.cards) = 2)
            /\ hand.isBust <=> value > 21
            /\ ~(hand.isBlackjack /\ hand.isBust)

\* K, Q, 5: 25 and bust, no blackjack
KingQueenFiveBust ==
    /\ HandRanks = <<"K", "Q", "5">>
    /\ hand.value = 25
    /\ hand.isBust
    /\ ~hand.isBlackjack

\* the whole number a with a <= x + 1/2 < a + 1 for x = 100 * correct / total
IsRoundedShare(a, correct, total) ==
    /\ 2 * a * total <= 200 * correct + total
    /\ 200 * correct + total < 2 * (a + 1) * total

LadderRating(a) ==
    CASE a >= 95 -> "Excellent"
      [] a >= 85 /\ a < 95 -> "Great"
      [] a >= 75 /\ a < 85 -> "Good"
      [] a >= 60 /\ a < 75 -> "Fair"
      [] OTHER -> "Needs Practice"

\* C18: for every (correct, total) getPerformanceRating is the ladder on the
\* accuracy, the rounded percentage of C17: Excellent from 95, Great from 85
\* to below 95, Good from 75 to below 85, Fair from 60 to below 75, Needs
\* Practice otherwise, also when total = 0.
RatingFollowsLadder ==
    LET r == getPerformanceRating(GameObject).rating
    IN  /\ score.total = 0 => r = "Needs Practice"
        /\ score.total > 0 =>
              \E a \in 0..100 : /\ IsRoundedShare(a, score.correct, score.total)
                                /\ r = LadderRating(a)

\* 3 right of 4, recorded call by call: exactly 75 percent, the bottom of Good
ExactlySeventyFiveIsGood ==
    /\ score = [correct |-> 3, total |-> 4]
    /\ lastEvent.calls > 0
    /\ getPerformanceRating(GameObject).rating = "Good"

\* C19: a newly constructed GameState starts at zero, whatever progress
\* record localStorage holds: score.correct = 0, score.total = 0,
\* getAccuracy() = 0 and gameActive = false.
NewStateStartsAtZero ==
    lastEvent.handler = "constructor" =>
        /\ score.correct = 0
        /\ score.total = 0
        /\ getAccuracy(GameObject) = 0
        /\ ~gameActive

ReturnedResults == {ret.scenarios[k].result : k \in 1..Len(ret.scenarios)}

\* C20: generateBalancedScenarios(count) returns exactly count scenarios,
\* for count = 20 with at least 3 different result types among them, and
\* every scenario that generateScenarioWithResult(t) produced has result t.
BalancedScenariosCoverResults ==
    /\ \A k \in 1..Len(ret.scenarios) :
          ret.scenarios[k].requested # Null =>
              ret.scenarios[k].result = ret.scenarios[k].requested.type
    /\ args.pc = "done" =>
          /\ Len(ret.scenarios) = args.count
          /\ args.count = 20 => Cardinality(ReturnedResults) >= 3

\* C21: a call with a null scenario changes no state and returns the neutral
\* result: calculatePayout(null) returns 0, and validatePayout(null, amount)
\* returns isCorrect = false with an explanatory message for every amount.
NullScenarioHandled ==
    [][args.scenario = Null =>
          /\ args' = args
          /\ UNCHANGED <<handVars, genVars, gameVars>>
          /\ ret'.fn = "calculatePayout" => ret'.value = 0
          /\ ret'.fn = "validatePayout" =>
                /\ ~ret'.value.isCorrect
                /\ ret'.value.message = "No scenario provided"]_vars

\* validatePayout(null, 0) returned isCorrect = false
NullScenarioValidated ==
    /\ Called("validatePayout")
    /\ args.scenario = Null
    /\ ret.selectedAmount = 0
    /\ ~ret.value.isCorrect

HandCardsOf(sc) == Range(sc.playerHand.cards) \cup Range(sc.dealerHand.cards)

\* C22: in every generateScenario call, whatever calls came before, no card
\* is popped from an empty deck (a deal asked of fewer than 10 cards is made
\* from the deck rebuilt to 52), every card placed in a hand is a card of
\* the 52, and a deck without an ace or without a ten-valued card gives the
\* player the ace of hearts and the king of spades.
DeckExhaustionAbsorbed ==
    [][generated' = generated + 1 =>
          LET noAce == \A i \in 1..Len(deck) : deck[i].rank # "A"
              noTen == \A i \in 1..Len(deck) : deck[i].rank \notin {"10", "J", "Q", "K"}
          IN  /\ genLog'.least >= 10
              /\ genLog'.least <= 52
              /\ HandCardsOf(scenario') \subseteq Range(initializeDeck)
              /\ (noAce \/ noTen) =>
                     scenario'.playerHand.cards
                         = <<Card("hearts", "A"), Card("spades", "K")>>]_vars

\* a call that found no ace or no ten-valued card in a deck of fewer than 10
\* cards and rebuilt the deck for the dealer
FallbackAndRebuiltDeck ==
    /\ scenario # Null
    /\ genLog.fallback
    /\ genLog.before < 10
    /\ Len(deck) > genLog.before
    /\ genLog.least >= 10

HistoryDates(history) == {history[i].date : i \in 1..Len(history)}
WithoutDate(history, day) == SelectSeq(history, LAMBDA entry : entry.date # day)

\* C24: starting from an empty history (or one an earlier use left), after
\* every scoring event and every save the history holds at most 30 entries
\* and no date twice; a scoring event on a date that has an entry replaces
\* that entry, one on a new date adds an entry and, beyond 30, drops the
\* entry of the oldest date; a save made with a score of 0 (reset) writes
\* no entry.
HistoryKeepsThirtyDays ==
    [][LET before == args.localStorage.history
           after  == args'.localStorage.history
           today  == args.today
           entry  == after[Len(after)]
       IN  /\ Len(after) <= 30
           /\ Cardinality(HistoryDates(after)) = Len(after)
           /\ lastEvent'.handler \in {"recordCorrect", "recordIncorrect"} =>
                 /\ entry.date = today
                 /\ entry.score = score'
                 /\ entry.sessionStats = sessionStats'
                 /\ today \in HistoryDates(before) =>
                       /\ Len(after) = Len(before)
                       /\ WithoutDate(after, today) = WithoutDate(before, today)
                 /\ (today \notin HistoryDates(before) /\ Len(before) < 30) =>
                       after = Append(before, entry)
                 /\ (today \notin HistoryDates(before) /\ Len(before) = 30) =>
                       /\ after = Append(Tail(before), entry)
                       /\ \A day \in HistoryDates(before) : before[1].date <= day
           /\ lastEvent'.handler \in {"reset", "midnight"} => after = before]_vars

\* day 31 of a history of 30 days: the entry of day 1 is gone, the entry of
\* day 31 was written by the first answer and replaced by the second
ThirtyFirstDayReplaced ==
    /\ lastEvent # Null /\ lastEvent.handler = "recordIncorrect"
    /\ args.today = 31
    /\ Len(args.localStorage.history) = 30
    /\ args.localStorage.history[1].date = 2
    /\ args.localStorage.history[30].date = 31
    /\ args.localStorage.history[30].score = [correct |-> 1, total |-> 2]

\* C25: in every generated scenario the dealer hand has at least 2 cards
\* and a final value of 17 or more, and every card after the second was
\* drawn when the value of the cards before it was below 17.
DealerStandsOnSeventeen ==
    scenario # Null =>
        LET d == scenario.dealerHand
        IN  /\ Len(d.cards) >= 2
            /\ d.value = ReferenceValue(d.cards)
            /\ d.value >= 17
            /\ \A k \in 3..Len(d.cards) :
                  ReferenceValue(SubSeq(d.cards, 1, k - 1)) < 17

\* a dealer who stood on a soft 17: an ace counted as 11, no further draw
DealerStoodOnSoftSeventeen ==
    /\ scenario # Null
    /\ RankCount(scenario.dealerHand.cards, "A") > 0
    /\ scenario.dealerHand.value = 17
    /\ HardTotal(scenario.dealerHand.cards) = 7

\* C26: in every generated scenario no card (suit, rank) appears more than
\* once across the player hand and the dealer hand.
NoCardTwiceInScenario ==
    scenario # Null =>
        Cardinality(HandCardsOf(scenario))
            = Len(scenario.playerHand.cards) + Len(scenario.dealerHand.cards)

\* C27: for every bet of the curated list calculateBetChips returns the
\* denominations calculateOptimalChips returns for the seven tray chips,
\* with the same counts in the same descending order, and the displayed
\* chips sum to the bet.
BetChipsMatchOptimalChips ==
    (ret.betChips # Null /\ ret.optimalChips # Null) =>
        LET shown   == ret.betChips.chips
            optimal == ret.optimalChips.value
        IN  /\ optimal # Null
            /\ Len(shown) = Len(optimal.pairs)
            /\ \A i \in 1..Len(shown) :
                  /\ shown[i].value = optimal.pairs[i].chip
                  /\ shown[i].count = optimal.pairs[i].count
            /\ \A i \in 1..(Len(shown) - 1) : shown[i].value > shown[i + 1].value
            /\ SeqSum([i \in 1..Len(shown) |-> shown[i].count * shown[i].value])
                  = args.betAmount

\* $177 shown as 100, 25 x 3, 1 x 2 by both
BetOfOneSeventySevenShown ==
    /\ args.betAmount = Dollars(177)
    /\ ret.betChips # Null /\ ret.optimalChips # Null
    /\ ret.betChips.chips = <<[value |-> Dollars(100), count |-> 1],
                              [value |-> Dollars(25), count |-> 3],
                              [value |-> Dollars(1), count |-> 2]>>
    /\ Len(ret.optimalChips.value.pairs) = 3

\* a new Hand given the cards one by one
RECURSIVE HandOfCards(_)
HandOfCards(cards) ==
    IF cards = <<>> THEN NewHand
    ELSE addCard(HandOfCards(SubSeq(cards, 1, Len(cards) - 1)), cards[Len(cards)])

\* what a hand comes to, its cards aside
HandOutcome(h) == <<h.value, h.softAces, h.isBlackjack, h.isBust>>

\* the cards with the first two exchanged, and with the first moved to the
\* end: from these two every order of the cards is reached
FirstTwoExchanged(cards) ==
    IF Len(cards) < 2 THEN cards ELSE <<cards[2], cards[1]>> \o SubSeq(cards, 3, Len(cards))
FirstMovedLast(cards) == IF cards = <<>> THEN cards ELSE Append(Tail(cards), Head(cards))

SubmitWithoutScenarioRejected ==
    [][(lastEvent'.handler = "submitPayout" /\ currentScenario = Null) =>
          /\ ~lastEvent'.evaluated
          /\ currentScenario' = Null
          /\ score' = score
          /\ sessionStats' = sessionStats
          /\ gamePhase' = gamePhase
          /\ gameActive' = gameActive
          /\ selected' = selected
          /\ currentPayout' = currentPayout
          /\ timers' = timers]_vars

\* a submission rejected between a reset and the scenario it scheduled, with
\* chips still selected
SubmitRejectedAfterReset ==
    /\ lastEvent.handler = "submitPayout"
    /\ ~lastEvent.evaluated
    /\ currentScenario = Null
    /\ score = NoScore
    /\ getTotalChipCount(selected) > 0
    /\ \E i \in 1..Len(timers) : timers[i].kind = "generate"

\* C30: every generateScenario call returns a scenario, whatever calls came
\* before: the redraw loop popped finitely many cards (at most the 16
\* ten-valued cards of the deck and of one rebuilt deck) and the
\* hit-below-17 loop drew finitely many (fewer than 17); and
\* generateScenarioWithResult never starts a 51st attempt, also for a result
\* that is never produced.
GenerationTerminates ==
    /\ args.attempts < maxAttempts
    /\ generated > 0 =>
          LET drawn   == Len(scenario.dealerHand.cards) - 2
              redrawn == genLog.pops - Len(scenario.dealerHand.cards)
          IN  /\ scenario # Null
              /\ drawn \in 0..16
              /\ redrawn \in 0..32

\* generateScenarioWithResult('win') returned after its 50 attempts, the
\* last of them with a redrawn second card
FiftyAttemptsUsedUp ==
    /\ \E k \in 1..Len(ret.scenarios) :
          /\ ret.scenarios[k].requested # Null
          /\ ret.scenarios[k].requested.type = "win"
          /\ ret.scenarios[k].result = "blackjack"
    /\ args.attempts = 0
    /\ generated >= maxAttempts
    /\ genLog.pops > Len(scenario.dealerHand.cards)

\* C31: a scenario is credited at most once: a submission that arrives after
\* the correct one for the current scenario (gamePhase is 'waiting' with the
\* scenario still current) and before the next scenario is set leaves the
\* score and the streak counters as they are.
ScenarioCreditedOnce ==
    [][(/\ lastEvent'.handler = "submitPayout"
        /\ currentScenario # Null
        /\ gamePhase = "waiting") =>
          /\ score' = score
          /\ sessionStats' = sessionStats]_vars

\* C32: the session score reflects user submissions only: with nothing saved,
\* when the first scenario is shown after start-up, and again after a reset,
\* correct = total = 0 and currentStreak = bestStreak = 0.
ScoreReflectsSubmissionsOnly ==
    (lastEvent.handler \in {"init", "performReset"}) =>
        /\ score = NoScore
        /\ sessionStats.currentStreak = 0
        /\ sessionStats.bestStreak = 0

StreaksOrdered ==
    /\ 0 <= sessionStats.currentStreak
    /\ sessionStats.currentStreak <= sessionStats.bestStreak
    /\ sessionStats.bestStreak <= score.correct
    /\ score.correct <= score.total

\* C33: in every state reached from a zeroed GameState by recordCorrect,
\* recordIncorrect and reset, 0 <= currentStreak <= bestStreak <= correct <=
\* total, and bestStreak goes down only through reset.
StreaksStayOrdered ==
    [][/\ StreaksOrdered
       /\ StreaksOrdered'
       /\ lastEvent'.handler # "reset" =>
             sessionStats'.bestStreak >= sessionStats.bestStreak]_vars

\* from zero: right, right, wrong, right
StreakBelowBest ==
    /\ args.savedProgress = Null
    /\ lastEvent.handler = "recordCorrect"
    /\ sessionStats.currentStreak = 1
    /\ sessionStats.bestStreak = 2
    /\ score = [correct |-> 3, total |-> 4]

\* C34: the payout total of the game state is the total that gets validated:
\* in every state reached by chip selection, chip removal, clear, scenario
\* generation, submission, reset and their timers, currentPayout equals
\* getTotalValue(), the sum of value x selected over the denominations.
PayoutTotalMatchesChips == currentPayout = getTotalValue(selected)

\* C35: a chip suggestion is always available after a wrong answer: for
\* every curated bet calculateOptimalChips(1.5 x bet, the seven tray chips)
\* returns a combination, not null, and each suggested count is within the
\* denomination's supply of 50.
SuggestionAlwaysAvailable ==
    (lastEvent.handler = "submitPayout" /\ ~lastEvent.validation.isCorrect) =>
        /\ lastEvent.optimalChips # Null
        /\ \A k \in 1..Len(lastEvent.optimalChips.pairs) :
              lastEvent.optimalChips.pairs[k].count <= chipCount

\* the tray without the $2.50 chip
WholeDollarChips == SelectSeq(chips, LAMBDA c : c % Dollars(1) = 0)

CountOf(pairs, chip) ==
    SeqSum([k \in 1..Len(pairs) |-> IF pairs[k].chip = chip THEN pairs[k].count ELSE 0])

\* a selection for an amount in whole and half dollars: one $2.50 chip when
\* the amount has a half dollar, the rest in whole-dollar chips
AnswerSelection(amount) ==
    LET half == IF amount % Dollars(1) = 0 THEN 0 ELSE 1
        rest == calculateOptimalChips(amount - half * HalfDollars(5),
                                      WholeDollarChips, TRUE)
    IN  [i \in 1..Len(chips) |->
            IF chips[i] = HalfDollars(5) THEN half
            ELSE IF rest = Null THEN 0
            ELSE CountOf(rest.pairs, chips[i])]

\* C36: every round can be answered correctly: for every curated bet there
\* is a selection of tray chips, each denomination within its supply of 50,
\* whose total is 1.5 x bet and which submitPayout accepts, and the user
\* reaches it by selecting chips from the cleared tray.
RoundIsAnswerable ==
    currentScenario # Null =>
        LET answer == AnswerSelection(calculatePayout(currentScenario))
        IN  /\ \A i \in 1..Len(chips) : answer[i] > 0 => canSelect(answer[i] - 1)
            /\ getTotalValue(answer) = (3 * currentScenario.betAmount) \div 2
            /\ validatePayout(currentScenario, getTotalValue(answer)).isCorrect

\* the bet of 7 answered with $5 + $2.50 + 3 x $1, for which no suggestion
\* is computed
TenFiftyAnswered ==
    /\ currentScenario # Null
    /\ currentScenario.betAmount = Dollars(7)
    /\ lastEvent.handler = "submitPayout"
    /\ lastEvent.validation.isCorrect
    /\ selected = AnswerSelection(Dollars(10) + HalfDollars(1))
    /\ getTotalChipCount(selected) = 5
    /\ score = [correct |-> 1, total |-> 1]
    /\ calculateOptimalChips(getTotalValue(selected), chips, TRUE) = Null

PendingGenerations(tm) == Cardinality({i \in 1..Len(tm) : tm[i].kind = "generate"})

\* C37: one scenario is created per round: at most one scheduled
\* generateNewScenario is pending at any time, and no timer replaces a
\* scenario that is being played (gamePhase 'playing'): the scenario changes
\* only after the correct submission for it or after a reset.
OneScenarioPerRound ==
    [][/\ PendingGenerations(timers') <= 1
       /\ lastEvent'.handler = "generateNewScenario" => gamePhase # "playing"]_vars

\* C38: the running average of the time per scenario never divides by zero:
\* whenever completeScenario calls updateSessionStats, scenariosCompleted is
\* at least 1, in every state reached by scenario generation, correct
\* submissions and reset, so averageTime is a finite number that is not
\* negative.
AverageTimeIsFinite ==
    /\ ret.updated # Null => ret.updated.scenariosCompleted >= 1
    /\ ret.averageTime.kind = "finite"
    /\ ret.averageTime.num >= 0

=============================================================================
